---------------------------- MODULE Spec2Model ----------------------------
(***************************************************************************)
(* Rabin signature pipeline of rw.c: prime generation under a mod-8        *)
(* constraint, group construction, element sampling, residue tweaking,     *)
(* CRT root extraction, Bleichenbacher compression and the verification    *)
(* loop.  Big integers (mpz_t) are TLA+ integers.  The byte alphabet of    *)
(* the randomness source is scaled down to 0..MaxByte and the bit sizes    *)
(* to PrimeSize / ElemSize so that every reachable key can be enumerated.  *)
(***************************************************************************)
EXTENDS Integers, Sequences, FiniteSets

VARIABLES
    pc,        \* position of main: the stage about to run
    fault,     \* why the process terminated abnormally ("none" while running)
    call,      \* arguments (size, mod8) of the running sampling call
    r,         \* result of the most recent read(2)
    errno,     \* errno left by the most recent read(2)
    p, q, n,   \* the primes and the composite
    u, v,      \* CRT coefficients
    e,         \* the message element (tweaked in place)
    a, b,      \* residue state
    mul_2, negate,
    root,      \* root-selection byte after "& 3"
    proot,     \* p-root, then the signature s (signature_compress's s aliases it)
    ncopy,     \* the copy of n that signature_compress consumes
    vs, i,     \* the 4-slot ring of convergents and its index
    croot,     \* isqrt(n) computed once in signature_compress
    hist,      \* history: every convergent in the order it was produced
    zsig,      \* compressed signature
    vi         \* iteration counter of the verification loop

vars == << pc, fault, call, r, errno, p, q, n, u, v, e, a, b, mul_2, negate,
           root, proot, ncopy, vs, i, croot, hist, zsig, vi >>

----------------------------------------------------------------------------
(* Bounds of the model *)

\* largest value of one byte delivered by the randomness source (255 in C)
MaxByte == 31
\* bit size requested for each prime (512 in main)
PrimeSize == 8
\* bit size requested for the element (1024 in main)
ElemSize == 16
\* iterations of the verification loop (1000000 in main)
VerifyIters == 2

(* Program constants *)

\* sizeof(buffer) in init_random_prime and random_element
BufferSize == 2048
\* rounds handed to mpz_probab_prime_p
PrimeRounds == 10

ByteRange == 0..MaxByte
ByteBase == MaxByte + 1

----------------------------------------------------------------------------
(* Arithmetic of the big-integer library, as the program uses it *)

RECURSIVE Pow2(_)
Pow2(k) == IF k = 0 THEN 1 ELSE 2 * Pow2(k - 1)

TstBit(x, k) == (x \div Pow2(k)) % 2

\* mpz_setbit
SetBit(x, k) == IF TstBit(x, k) = 1 THEN x ELSE x + Pow2(k)

\* mpz_clrbit
ClrBit(x, k) == IF TstBit(x, k) = 1 THEN x - Pow2(k) ELSE x

\* the C expression (m & mask) for a single-bit mask 2^k
AndBit(m, k) == TstBit(m, k) * Pow2(k)

\* the C expression (x & 3) on an unsigned value (wraps below zero)
And3(x) == x % 4

\* mpz_mod: the result is never negative
Mod(x, m) == x % m

\* mpz_powm by square and multiply
RECURSIVE PowM(_, _, _)
PowM(base, ex, m) ==
    IF ex = 0 THEN 1 % m
    ELSE LET h == PowM(base, ex \div 2, m)
             sq == (h * h) % m
         IN IF ex % 2 = 1 THEN (sq * (base % m)) % m ELSE sq

\* mpz_sqrt: the truncated integer square root
RECURSIVE SqrtFrom(_, _)
SqrtFrom(x, k) == IF (k + 1) * (k + 1) > x THEN k ELSE SqrtFrom(x, k + 1)

Sqrt(x) == SqrtFrom(x, 0)

\* mpz_sqrtrem: <<root, remainder>>
SqrtRem(x) == LET t == Sqrt(x) IN << t, x - t * t >>

\* mpz_cdiv_q_2exp: quotient rounded up
CDivQ2Exp(x, k) == -((-x) \div Pow2(k))

\* mpz_probab_prime_p(x, reps): exact on the small values of the model
ProbabPrime(x, reps) ==
    /\ reps > 0
    /\ x > 1
    /\ \A d \in 2..Sqrt(x) : x % d # 0

\* mpz_import(.., bytes, 1, 1, 0, 0, buffer): big-endian, most significant first
RECURSIVE ImportFrom(_, _, _)
ImportFrom(buf, k, acc) ==
    IF k > Len(buf) THEN acc
    ELSE ImportFrom(buf, k + 1, acc * ByteBase + buf[k])

Import(buf) == ImportFrom(buf, 1, 0)

\* const unsigned bytes = size >> 3
Bytes(size) == size \div 8

\* every buffer a full read of `bytes` bytes can deliver
Buffers(bytes) == [1..bytes -> ByteRange]

----------------------------------------------------------------------------
(* init_random_prime *)

\* bit 2 decided by the test meant for bit 1
ForceBitsWrong(x, mod8) ==
    LET x0 == SetBit(x, 0)
        x1 == IF AndBit(mod8, 1) # 0 THEN SetBit(x0, 1) ELSE ClrBit(x0, 1)
    IN IF AndBit(mod8, 1) # 0 THEN SetBit(x1, 2) ELSE ClrBit(x1, 2)

\* lines 59-71: force bit 0, copy bits 1 and 2 of mod8
ForceBits(x, mod8) ==
    LET x0 == SetBit(x, 0)
        x1 == IF AndBit(mod8, 1) # 0 THEN SetBit(x0, 1) ELSE ClrBit(x0, 1)
    IN IF AndBit(mod8, 2) # 0 THEN SetBit(x1, 2) ELSE ClrBit(x1, 2)

InPrime == pc \in {"gen_p", "gen_q"}

Abort(why) ==
    /\ pc' = "aborted"
    /\ fault' = why

\* lines 43-44: the request does not fit the buffer
init_random_prime_oversize ==
    /\ InPrime
    /\ Bytes(call.size) > BufferSize
    /\ Abort("size")
    /\ UNCHANGED << call, r, errno, p, q, n, u, v, e, a, b, mul_2, negate,
                    root, proot, ncopy, vs, i, croot, hist, zsig, vi >>

\* lines 51-53: read interrupted, the do-while loop reads again
init_random_prime_eintr ==
    /\ InPrime
    /\ Bytes(call.size) <= BufferSize
    /\ r' = -1
    /\ errno' = "EINTR"
    /\ UNCHANGED << pc, fault, call, p, q, n, u, v, e, a, b, mul_2, negate,
                    root, proot, ncopy, vs, i, croot, hist, zsig, vi >>

\* lines 55-56: any other failed or short read
init_random_prime_badread ==
    /\ InPrime
    /\ Bytes(call.size) <= BufferSize
    /\ \/ r' = -1 /\ errno' = "EIO"
       \/ r' \in 0..(Bytes(call.size) - 1) /\ errno' = errno
    /\ r' # Bytes(call.size)
    /\ Abort("read")
    /\ UNCHANGED << call, p, q, n, u, v, e, a, b, mul_2, negate,
                    root, proot, ncopy, vs, i, croot, hist, zsig, vi >>

\* lines 58-75: one candidate; a composite one restarts the loop
init_random_prime_candidate ==
    /\ InPrime
    /\ Bytes(call.size) <= BufferSize
    /\ \E buffer \in Buffers(Bytes(call.size)) :
          LET cand == ForceBits(Import(buffer), call.mod8)
              ok == ProbabPrime(cand, PrimeRounds)
          IN /\ r' = Bytes(call.size)
             /\ errno' = errno
             /\ IF pc = "gen_p"
                   THEN /\ p' = cand
                        /\ q' = q
                        /\ pc' = IF ok THEN "gen_q" ELSE pc
                        /\ call' = IF ok THEN [size |-> PrimeSize, mod8 |-> 7]
                                         ELSE call
                   ELSE /\ q' = cand
                        /\ p' = p
                        /\ pc' = IF ok THEN "build" ELSE pc
                        /\ call' = call
    /\ UNCHANGED << fault, n, u, v, e, a, b, mul_2, negate,
                    root, proot, ncopy, vs, i, croot, hist, zsig, vi >>

----------------------------------------------------------------------------
(* Group Builder: main, lines 195-204 *)

\* xgcd(u, v, p, q): Bezout coefficients of p and q.  Any pair of least
\* magnitude may come back, whichever sign convention the routine follows.
xgcd(pp, qq) ==
    { c \in ((-qq)..qq) \X ((-pp)..pp) : c[1] * pp + c[2] * qq = 1 }

\* each coefficient multiplied by the other prime
GroupCoeffsSwapped(c, pp, qq) == [u |-> c[1] * qq, v |-> c[2] * pp]

\* lines 203-204: mpz_mul(u, u, p); mpz_mul(v, v, q)
GroupCoeffs(c, pp, qq) == [u |-> c[1] * pp, v |-> c[2] * qq]

main_group ==
    /\ pc = "build"
    /\ n' = p * q
    /\ \E c \in xgcd(p, q) :
          /\ u' = GroupCoeffs(c, p, q).u
          /\ v' = GroupCoeffs(c, p, q).v
    /\ pc' = "sample"
    /\ call' = [size |-> ElemSize, mod8 |-> 0]
    /\ UNCHANGED << fault, r, errno, p, q, e, a, b, mul_2, negate,
                    root, proot, ncopy, vs, i, croot, hist, zsig, vi >>

----------------------------------------------------------------------------
(* random_element: lines 85-106, called at line 211 *)

\* lines 97-99: read interrupted, read again
random_element_eintr ==
    /\ pc = "sample"
    /\ Bytes(call.size) <= BufferSize
    /\ r' = -1
    /\ errno' = "EINTR"
    /\ UNCHANGED << pc, fault, call, p, q, n, u, v, e, a, b, mul_2, negate,
                    root, proot, ncopy, vs, i, croot, hist, zsig, vi >>

\* lines 101-102
random_element_badread ==
    /\ pc = "sample"
    /\ Bytes(call.size) <= BufferSize
    /\ \/ r' = -1 /\ errno' = "EIO"
       \/ r' \in 0..(Bytes(call.size) - 1) /\ errno' = errno
    /\ Abort("read")
    /\ UNCHANGED << call, p, q, n, u, v, e, a, b, mul_2, negate,
                    root, proot, ncopy, vs, i, croot, hist, zsig, vi >>

\* lines 104-105
random_element ==
    /\ pc = "sample"
    /\ Bytes(call.size) <= BufferSize
    /\ \E buffer \in Buffers(Bytes(call.size)) :
          e' = Mod(Import(buffer), n)
    /\ r' = Bytes(call.size)
    /\ errno' = errno
    /\ pc' = "oracle"
    /\ UNCHANGED << fault, call, p, q, n, u, v, a, b, mul_2, negate,
                    root, proot, ncopy, vs, i, croot, hist, zsig, vi >>

----------------------------------------------------------------------------
(* Quadratic Residue Oracle: lines 113-132 *)

\* the candidate root compared without squaring it
is_quadratic_residue_unsquared(ee, pp, power) ==
    LET emod == Mod(ee, pp)
        rr == PowM(ee, power, pp)
    IN IF rr = emod THEN 1 ELSE 0

\* lines 113-132
is_quadratic_residue(ee, pp, power) ==
    LET emod == Mod(ee, pp)
        r0 == PowM(ee, power, pp)
        r1 == Mod(r0 * r0, pp)
    IN IF r1 = emod THEN 1 ELSE 0

\* lines 254-256 and 258-260: (x + 1) / 4
PlusOneOver4(x) == CDivQ2Exp(x + 1, 2)

\* lines 216-217; the exponent is the one the function's header names
main_oracle ==
    /\ pc = "oracle"
    /\ a' = is_quadratic_residue(e, p, PlusOneOver4(p))
    /\ b' = is_quadratic_residue(e, q, PlusOneOver4(q))
    /\ pc' = "tweak"
    /\ UNCHANGED << fault, call, r, errno, p, q, n, u, v, e, mul_2, negate,
                    root, proot, ncopy, vs, i, croot, hist, zsig, vi >>

----------------------------------------------------------------------------
(* Residue Tweaker: lines 221-242 *)

Xor(x, y) == IF x = y THEN 0 ELSE 1

\* lines 221-232 with the "a ^= 1" of line 225 left out
TweakFlagsNoFlip(aa, bb) ==
    LET m == IF Xor(aa, bb) # 0 THEN 1 ELSE 0
        ng == IF aa = 0 THEN 1 ELSE 0
    IN [mul_2 |-> m, negate |-> ng,
        a |-> IF ng = 1 THEN Xor(aa, 1) ELSE aa,
        b |-> IF ng = 1 THEN Xor(bb, 1) ELSE bb]

\* lines 221-232: the flags and the residue bits as the code rewrites them
TweakFlags(aa, bb) ==
    LET m == IF Xor(aa, bb) # 0 THEN 1 ELSE 0
        a1 == IF m = 1 THEN Xor(aa, 1) ELSE aa
        ng == IF a1 = 0 THEN 1 ELSE 0
    IN [mul_2 |-> m, negate |-> ng,
        a |-> IF ng = 1 THEN Xor(a1, 1) ELSE a1,
        b |-> IF ng = 1 THEN Xor(bb, 1) ELSE bb]

\* the negation of line 236 left out
TweakElementNoNegate(ee, f, nn) ==
    LET e2 == IF f.mul_2 = 1 THEN ee * 2 ELSE ee
    IN IF f.negate = 1 \/ f.mul_2 = 1 THEN Mod(e2, nn) ELSE e2

\* lines 235-242
TweakElement(ee, f, nn) ==
    LET e1 == IF f.negate = 1 THEN -ee ELSE ee
        e2 == IF f.mul_2 = 1 THEN e1 * 2 ELSE e1
    IN IF f.negate = 1 \/ f.mul_2 = 1 THEN Mod(e2, nn) ELSE e2

main_tweak ==
    /\ pc = "tweak"
    /\ LET f == TweakFlags(a, b)
       IN /\ mul_2' = f.mul_2
          /\ negate' = f.negate
          /\ a' = f.a
          /\ b' = f.b
          /\ e' = TweakElement(e, f, n)
    /\ pc' = "pick_root"
    /\ UNCHANGED << fault, call, r, errno, p, q, n, u, v,
                    root, proot, ncopy, vs, i, croot, hist, zsig, vi >>

----------------------------------------------------------------------------
(* Root selection: lines 246-248.  The result of read is not looked at. *)

\* the byte arrived
main_pick_root ==
    /\ pc = "pick_root"
    /\ \E byte \in ByteRange : root' = And3(byte)
    /\ r' = 1
    /\ errno' = errno
    /\ pc' = "sign"
    /\ UNCHANGED << fault, call, p, q, n, u, v, e, a, b, mul_2, negate,
                    proot, ncopy, vs, i, croot, hist, zsig, vi >>

\* the read failed or hit end of input: root keeps whatever the stack held
main_pick_root_unread ==
    /\ pc = "pick_root"
    /\ \/ r' = -1 /\ errno' \in {"EINTR", "EIO"}
       \/ r' = 0 /\ errno' = errno
    /\ \E garbage \in ByteRange : root' = And3(garbage)
    /\ pc' = "sign"
    /\ UNCHANGED << fault, call, p, q, n, u, v, e, a, b, mul_2, negate,
                    proot, ncopy, vs, i, croot, hist, zsig, vi >>

----------------------------------------------------------------------------
(* Root Extractor: lines 252-278 *)

\* u and v exchanged
CombineSwapped(pr, qr, uu, vv, nn) == Mod(pr * uu + qr * vv, nn)

\* lines 275-278
Combine(pr, qr, uu, vv, nn) == Mod(pr * vv + qr * uu, nn)

\* lines 264-273
SignedRoots(ee, pp, qq, sel) ==
    LET pr == PowM(ee, PlusOneOver4(pp), pp)
        qr == PowM(ee, PlusOneOver4(qq), qq)
    IN [proot |-> IF AndBit(sel, 0) # 0 THEN -pr ELSE pr,
        qroot |-> IF AndBit(sel, 1) # 0 THEN -qr ELSE qr]

\* lines 252-286: the signature lands in proot, ncopy is set for the compressor
main_sign ==
    /\ pc = "sign"
    /\ LET rt == SignedRoots(e, p, q, root)
       IN proot' = Combine(rt.proot, rt.qroot, u, v, n)
    /\ ncopy' = n
    /\ pc' = "compress"
    /\ UNCHANGED << fault, call, r, errno, p, q, n, u, v, e, a, b, mul_2,
                    negate, root, vs, i, croot, hist, zsig, vi >>

----------------------------------------------------------------------------
(* signature_compress: lines 142-180; s is proot and n is ncopy, in place *)

\* (i-1)&3 and (i-2)&3 of lines 167-168
Back(idx, k) == And3(idx - k)

\* the newest slot instead of the one before it
ResultSlotNewest(idx) == idx

\* line 172: the slot handed back
ResultSlot(idx) == And3(idx - 1)

\* lines 144-157
signature_compress_init ==
    /\ pc = "compress"
    /\ vs' = [k \in 0..3 |-> IF k = 1 THEN 1 ELSE 0]
    /\ croot' = Sqrt(ncopy)
    /\ i' = 1
    /\ hist' = << 0, 1 >>
    /\ pc' = "compress_loop"
    /\ UNCHANGED << fault, call, r, errno, p, q, n, u, v, e, a, b, mul_2,
                    negate, root, proot, ncopy, zsig, vi >>

\* lines 163/165 reached with a zero divisor: the library raises a
\* division-by-zero fault and the process dies
signature_compress_divzero ==
    /\ pc = "compress_loop"
    /\ LET i1 == And3(i + 1)
       IN IF AndBit(i1, 0) # 0 THEN ncopy = 0 ELSE proot = 0
    /\ i' = And3(i + 1)
    /\ Abort("div0")
    /\ UNCHANGED << call, r, errno, p, q, n, u, v, e, a, b, mul_2,
                    negate, root, proot, ncopy, vs, croot, hist, zsig, vi >>

\* lines 159-172: one pass of the do-while body, and the exit when the test fails
signature_compress_step ==
    /\ pc = "compress_loop"
    /\ LET i1 == And3(i + 1)
           odd == AndBit(i1, 0) # 0
       IN /\ IF odd THEN ncopy # 0 ELSE proot # 0
          /\ LET cf == IF odd THEN proot \div ncopy ELSE ncopy \div proot
                 s1 == IF odd THEN proot % ncopy ELSE proot
                 n1 == IF odd THEN ncopy ELSE ncopy % proot
                 nv == vs[Back(i1, 1)] * cf + vs[Back(i1, 2)]
                 vs1 == [vs EXCEPT ![i1] = nv]
             IN /\ i' = i1
                /\ proot' = s1
                /\ ncopy' = n1
                /\ vs' = vs1
                /\ hist' = Append(hist, nv)
                /\ IF nv < croot
                      THEN /\ pc' = pc
                           /\ zsig' = zsig
                      ELSE /\ pc' = "verify"
                           /\ zsig' = vs1[ResultSlot(i1)]
    /\ UNCHANGED << fault, call, r, errno, p, q, n, u, v, e, a, b, mul_2,
                    negate, root, croot, vi >>

----------------------------------------------------------------------------
(* Verifier: lines 300-312 *)

\* lines 301-304
VerifyProduct(z, ee, nn) == Mod((z * z) * ee, nn)

\* lines 305-306 and 310-311: the product is zero or not a perfect square
main_verify_abort ==
    /\ pc = "verify"
    /\ vi < VerifyIters
    /\ LET prod == VerifyProduct(zsig, e, n)
       IN /\ prod = 0 \/ SqrtRem(prod)[2] # 0
          /\ Abort(IF prod = 0 THEN "zero" ELSE "nonsquare")
    /\ UNCHANGED << call, r, errno, p, q, n, u, v, e, a, b, mul_2, negate,
                    root, proot, ncopy, vs, i, croot, hist, zsig, vi >>

\* one full pass of the loop body
main_verify_pass ==
    /\ pc = "verify"
    /\ vi < VerifyIters
    /\ VerifyProduct(zsig, e, n) # 0
    /\ SqrtRem(VerifyProduct(zsig, e, n))[2] = 0
    /\ vi' = vi + 1
    /\ UNCHANGED << pc, fault, call, r, errno, p, q, n, u, v, e, a, b, mul_2,
                    negate, root, proot, ncopy, vs, i, croot, hist, zsig >>

\* lines 314-317: the loop is over, main returns 0
main_return ==
    /\ pc = "verify"
    /\ vi = VerifyIters
    /\ pc' = "done"
    /\ UNCHANGED << fault, call, r, errno, p, q, n, u, v, e, a, b, mul_2,
                    negate, root, proot, ncopy, vs, i, croot, hist, zsig, vi >>

----------------------------------------------------------------------------
Blank ==
    /\ fault = "none"
    /\ r = 0
    /\ errno = "none"
    /\ p = 0 /\ q = 0 /\ n = 0 /\ u = 0 /\ v = 0 /\ e = 0
    /\ a = 0 /\ b = 0 /\ mul_2 = 0 /\ negate = 0
    /\ root = 0 /\ proot = 0 /\ ncopy = 0
    /\ vs = [k \in 0..3 |-> 0]
    /\ i = 0 /\ croot = 0
    /\ hist = << >>
    /\ zsig = 0 /\ vi = 0

\* main, line 189: the first call asks for a prime that is 3 mod 8
Init ==
    /\ pc = "gen_p"
    /\ call = [size |-> PrimeSize, mod8 |-> 3]
    /\ Blank

Next ==
    \/ init_random_prime_eintr
    \/ init_random_prime_badread
    \/ init_random_prime_candidate
    \/ main_group
    \/ random_element_eintr
    \/ random_element_badread
    \/ random_element
    \/ main_oracle
    \/ main_tweak
    \/ main_pick_root
    \/ main_pick_root_unread
    \/ main_sign
    \/ signature_compress_init
    \/ signature_compress_divzero
    \/ signature_compress_step
    \/ main_verify_abort
    \/ main_verify_pass
    \/ main_return

Spec == Init /\ [][Next]_vars

(* init_random_prime on its own, for every residue and size a caller may pass *)
Sizes == {PrimeSize, ElemSize, 8 * (BufferSize + 1)}

InitPrime ==
    /\ pc = "gen_q"
    /\ call \in [size : Sizes, mod8 : 0..7]
    /\ Blank

NextPrime ==
    \/ init_random_prime_oversize
    \/ init_random_prime_eintr
    \/ init_random_prime_badread
    \/ init_random_prime_candidate

SpecPrime == InitPrime /\ [][NextPrime]_vars

----------------------------------------------------------------------------
(* Properties *)

\* x is a square modulo m: some y has y*y = x (mod m)
IsSquareMod(x, m) == \E y \in 0..(m - 1) : (y * y) % m = x % m

\* x is the square of an integer
IsSquare(x) == \E t \in 0..x : t * t = x

PastRoot == {"sign", "compress", "compress_loop", "verify", "done"}

Compressed ==
    \/ pc \in {"verify", "done"}
    \/ pc = "aborted" /\ fault \in {"zero", "nonsquare"}

\* C1: whatever the pipeline hands to the verification loop, the product
\* zsig*zsig*e mod n is non-zero and a perfect square, so the loop never aborts.
C1_VerifyRoundTrip ==
    /\ pc = "verify" =>
          /\ VerifyProduct(zsig, e, n) # 0
          /\ IsSquare(VerifyProduct(zsig, e, n))
    /\ fault \notin {"zero", "nonsquare"}

\* C2: the signature left in proot by the Root Extractor squares to the
\* tweaked e modulo n, for each of the four root selections.
C2_SignatureSquaresToE ==
    pc = "compress" => (proot * proot) % n = e

C2_Witness ==
    /\ pc = "compress"
    /\ root = 3
    /\ mul_2 = 1 /\ negate = 1
    /\ e % p # 0 /\ e % q # 0

\* C3: after the Residue Tweaker has run, e is reduced modulo n and is a
\* square modulo p and modulo q.
C3_TweakedIsResidue ==
    pc = "pick_root" =>
        /\ e \in 0..(n - 1)
        /\ IsSquareMod(e, p)
        /\ IsSquareMod(e, q)

C3_Witness ==
    /\ pc = "pick_root"
    /\ mul_2 = 1 /\ negate = 1
    /\ e % p # 0 /\ e % q # 0

\* C4: the value signature_compress returns is the convergent produced just
\* before the first convergent that reaches isqrt(n) of the original n, and
\* so it is below isqrt(n).
C4_ZsigIsPreviousConvergent ==
    Compressed =>
        LET k == Len(hist)
        IN /\ k >= 3
           /\ hist[k] >= Sqrt(n)
           /\ \A j \in 1..(k - 1) : hist[j] < Sqrt(n)
           /\ zsig = hist[k - 1]
           /\ zsig < Sqrt(n)

C4_Witness ==
    /\ pc = "verify"
    /\ Len(hist) >= 6
    /\ zsig > 1

\* C5: the CRT coefficients satisfy (u + v) mod n = 1, u = 0 (mod p),
\* u = 1 (mod q), v = 1 (mod p), v = 0 (mod q).
C5_CrtIdempotents ==
    pc = "sample" =>
        /\ (u + v) % n = 1
        /\ u % p = 0 /\ u % q = 1
        /\ v % p = 1 /\ v % q = 0

C5_Witness ==
    /\ pc = "sample"
    /\ u < 0
    /\ p > q

C7_ReadsFullOrFatal ==
    /\ pc = "build" => r = Bytes(PrimeSize)
    /\ pc \in {"oracle", "tweak", "pick_root"} => r = Bytes(ElemSize)
    /\ pc \in PastRoot => r = 1
    /\ fault = "read" => ~(r = -1 /\ errno = "EINTR")

\* C8: is_quadratic_residue answers non-zero exactly for the squares modulo
\* the prime, for the primes 3 mod 4 and every element the pipeline samples.
C8_OracleDecidesSquares ==
    pc = "tweak" =>
        /\ (a # 0) <=> IsSquareMod(e, p)
        /\ (b # 0) <=> IsSquareMod(e, q)

C8_Witness ==
    /\ pc = "tweak"
    /\ a = 0 /\ b # 0
    /\ e > p /\ e > q

\* C9 as stated: when exactly one of a, b is true, doubling e alone makes
\* both residue bits true.
C9_DoublingAloneFixes ==
    (pc = "tweak" /\ a # b) =>
        /\ IsSquareMod(2 * e, p)
        /\ IsSquareMod(2 * e, q)

\* C9 amended: when exactly one of a, b is true the Tweaker doubles e.  If a
\* was false and b true, doubling alone makes both bits true and nothing is
\* negated.  If a was true and b false, doubling leaves b false (and a true
\* only when p divides e); the Tweaker negates as well, and both are true
\* after the two transforms.
C9_DoublingThenNegation ==
    (pc = "tweak" /\ a # b) =>
        LET f == TweakFlags(a, b)
            t == TweakElement(e, f, n)
        IN /\ f.mul_2 = 1
           /\ (a = 0 /\ b = 1) =>
                 /\ f.negate = 0
                 /\ IsSquareMod(2 * e, p) /\ IsSquareMod(2 * e, q)
           /\ (a = 1 /\ b = 0) =>
                 /\ f.negate = 1
                 /\ ~IsSquareMod(2 * e, q)
                 /\ IsSquareMod(2 * e, p) <=> (e % p = 0)
           /\ IsSquareMod(t, p) /\ IsSquareMod(t, q)

C9_Witness ==
    /\ pc = "tweak"
    /\ a = 1 /\ b = 0
    /\ e % p # 0

\* C10: the loop of signature_compress never divides by zero and ends with
\* a convergent that reaches isqrt(n), for every signature of the pipeline.
C10_NoZeroDivisor ==
    /\ fault # "div0"
    /\ pc = "compress_loop" =>
          LET i1 == And3(i + 1)
          IN IF AndBit(i1, 0) # 0 THEN ncopy # 0 ELSE proot # 0

=============================================================================
